---- MODULE Spec2Model ----
(***************************************************************************)
(* Model of app.py: the retrying retrieval function fetch_variants_data    *)
(* and the aggregation engine parse_restaurant_variants with its field     *)
(* extractors.                                                             *)
(*                                                                         *)
(* Python values are represented as follows.                               *)
(*   - The top-level response and the value stored under its "variants"    *)
(*     key are tagged JSON values [t |-> kind, ...], because the code's    *)
(*     behaviour there depends on the Python type it is handed:            *)
(*       [t |-> "dict", items |-> set of <<key, value>>]                   *)
(*       [t |-> "list", v |-> sequence]   [t |-> "null"]                   *)
(*       [t |-> "int", v |-> n]           [t |-> "str", v |-> s]           *)
(*   - A variant, menu item, category or service is a mapping with         *)
(*     optional keys: a TLA+ record whose DOMAIN is the set of keys that   *)
(*     are present.  dict.get(k, d) is Get(d, k, default).                 *)
(*   - A Python set is a TLA+ set; a list built from a set (whose order    *)
(*     Python leaves unspecified) is kept as that set.                     *)
(*   - sum(costs) / len(costs) is the exact quotient, kept as a reduced    *)
(*     fraction [num, den].                                                *)
(***************************************************************************)
EXTENDS Integers, Sequences, FiniteSets, TLC

VARIABLES
    pc,              \* position of parse_restaurant_variants: "called", "returned", "raised"
    api_response,    \* its argument
    result,          \* what it returned or raised
    fetch_pc,        \* position of fetch_variants_data
    MAX_RETRIES,     \* config.MAX_RETRIES
    attempt,         \* loop variable of fetch_variants_data
    events,          \* what fetch_variants_data has done so far, in order
    fetched          \* what fetch_variants_data returned or raised

parse_vars == <<pc, api_response, result>>
fetch_vars == <<fetch_pc, MAX_RETRIES, attempt, events, fetched>>
vars == <<pc, api_response, result, fetch_pc, MAX_RETRIES, attempt, events, fetched>>

-----------------------------------------------------------------------------
(* Bounds of the model *)

MaxVariants == 3         \* variants in a response of the grouping family
MaxCost == 2             \* largest cost in the price family
MaxPriceVariants == 3    \* variants in a response of the price family
MaxCatItems == 2         \* menu items of the variant in the category family
MaxServices == 2         \* entries of freeServices / paidServices
MaxRetriesBound == 3     \* largest MAX_RETRIES

-----------------------------------------------------------------------------
(* Python built-ins *)

PyNone == "<None>"

\* dict.get(k, default) on a mapping with optional keys
Get(d, k, default) == IF k \in DOMAIN d THEN d[k] ELSE default

\* dict.get(k, default) on a tagged top-level mapping
DictGet(d, k, default) ==
    IF \E p \in d.items : p[1] = k
    THEN (CHOOSE p \in d.items : p[1] = k)[2]
    ELSE default

\* The cuisine ids of the model, in the order Python's str comparison gives them.
IdOrder == <<"c1", "c2", "c3">>

IdRank(s) == CHOOSE i \in DOMAIN IdOrder : IdOrder[i] = s

\* a < b on two id strings
StrLess(a, b) == IdRank(a) < IdRank(b)

\* sorted(list(S)) for a set S of id strings
RECURSIVE Sorted(_)
Sorted(S) ==
    IF S = {} THEN <<>>
    ELSE LET m == CHOOSE x \in S : \A y \in S : ~StrLess(y, x)
         IN  <<m>> \o Sorted(S \ {m})

Range(s) == {s[i] : i \in DOMAIN s}

RECURSIVE SumSeq(_)
SumSeq(s) == IF s = <<>> THEN 0 ELSE Head(s) + SumSeq(Tail(s))

\* min(costs), max(costs) on a non-empty list
Min(s) == CHOOSE x \in Range(s) : \A y \in Range(s) : x <= y
Max(s) == CHOOSE x \in Range(s) : \A y \in Range(s) : x >= y

RECURSIVE Gcd(_, _)
Gcd(a, b) == IF b = 0 THEN a ELSE Gcd(b, a % b)

\* a / b (true division) for a >= 0, b > 0, as a reduced fraction
TrueDiv(a, b) == LET g == Gcd(a, b) IN [num |-> a \div g, den |-> b \div g]

\* the number 0 in the representation of a quotient
Zero == [num |-> 0, den |-> 1]

-----------------------------------------------------------------------------
(* Field extractors *)

\* CategoryPairs with the leaf kept next to its parents
CategoryPairs_keeping_leaf(category) ==
    LET parent_categories == Get(category, "parentCategories", <<>>)
    IN  {<<Get(parent_categories[j], "_id", ""), Get(parent_categories[j], "name", "")>> :
             j \in DOMAIN parent_categories}
        \cup {<<Get(category, "_id", ""), Get(category, "name", "")>>}

\* the (id, name) pairs one category contributes
CategoryPairs(category) ==
    LET parent_categories == Get(category, "parentCategories", <<>>)
    IN  IF parent_categories # <<>>
        THEN {<<Get(parent_categories[j], "_id", ""), Get(parent_categories[j], "name", "")>> :
                  j \in DOMAIN parent_categories}
        ELSE {<<Get(category, "_id", ""), Get(category, "name", "")>>}

extract_categories_from_menu_item(menu_item) ==
    LET category == Get(menu_item, "category", <<>>)
    IN  UNION {CategoryPairs(category[i]) : i \in DOMAIN category}

\* ServiceNames without the `if service_name` test
ServiceNames_unfiltered(services_array) ==
    [i \in DOMAIN services_array |-> Get(services_array[i], "serviceName", "")]

\* one of the two loops of extract_services_from_variant
ServiceNames(services_array) ==
    LET names == [i \in DOMAIN services_array |-> Get(services_array[i], "serviceName", "")]
    IN  SelectSeq(names, LAMBDA service_name : service_name # "")

extract_services_from_variant(variant) ==
    <<ServiceNames(Get(variant, "freeServices", <<>>)),
      ServiceNames(Get(variant, "paidServices", <<>>))>>

-----------------------------------------------------------------------------
(* parse_restaurant_variants: the loop over the variants *)

\* variant_cuisines after the loop over menu_items
variant_cuisines(menu_items) ==
    UNION {Range(Get(menu_items[i], "cuisine", <<>>)) : i \in DOMAIN menu_items}

\* the ids of a sequence of id sequences in the order of their first occurrence
RECURSIVE FirstOccurrences(_, _)
FirstOccurrences(seen, ids) ==
    IF ids = <<>> THEN seen
    ELSE FirstOccurrences(IF Head(ids) \in Range(seen) THEN seen ELSE Append(seen, Head(ids)),
                          Tail(ids))

RECURSIVE Flatten(_)
Flatten(seqs) == IF seqs = <<>> THEN <<>> ELSE Head(seqs) \o Flatten(Tail(seqs))

\* variant_cuisine_list without sorted(): the ids as first met
variant_cuisine_list_unsorted(menu_items) ==
    FirstOccurrences(<<>>, Flatten([i \in DOMAIN menu_items |-> Get(menu_items[i], "cuisine", <<>>)]))

variant_cuisine_list(menu_items) == Sorted(variant_cuisines(menu_items))

\* variant_categories after the loop over menu_items
variant_categories(menu_items) ==
    UNION {extract_categories_from_menu_item(menu_items[i]) : i \in DOMAIN menu_items}

\* the record appended to restaurant_variants for one variant
NormalizedVariant(variant) ==
    LET menu_items == Get(variant, "menuItems", <<>>)
        services == extract_services_from_variant(variant)
        cuisine_list == variant_cuisine_list(menu_items)
        categories == variant_categories(menu_items)
    IN  [variant_id |-> Get(variant, "_id", "unknown"),
         variant_name |-> Get(variant, "name", "unnamed"),
         cuisines |-> cuisine_list,
         cuisine_count |-> Len(cuisine_list),
         menu_items_count |-> Len(menu_items),
         categories |-> categories,
         categories_count |-> Cardinality(categories),
         cost |-> Get(variant, "cost", 0),
         min_persons |-> Get(variant, "minPersons", 0),
         max_persons |-> Get(variant, "maxPersons", 0),
         is_customized |-> Get(variant, "isCustomized", FALSE),
         venue_id |-> Get(variant, "venueId", ""),
         free_services |-> services[1],
         paid_services |-> services[2],
         free_services_count |-> Len(services[1]),
         paid_services_count |-> Len(services[2])]

restaurant_variants(variants) == [i \in DOMAIN variants |-> NormalizedVariant(variants[i])]

\* all_cuisine_ids after the loop over the variants
all_cuisine_ids(variants) ==
    UNION {variant_cuisines(Get(variants[i], "menuItems", <<>>)) : i \in DOMAIN variants}

-----------------------------------------------------------------------------
(* parse_restaurant_variants: grouping *)

\* combination_groups[combination_key].append(variant); the mapping keeps its
\* keys in the order of their first insertion
AddToGroup(groups, variant) ==
    LET combination_key == variant.cuisines
    IN  IF \E g \in DOMAIN groups : groups[g].key = combination_key
        THEN LET g == CHOOSE g \in DOMAIN groups : groups[g].key = combination_key
             IN  [groups EXCEPT ![g].members = Append(@, variant)]
        ELSE Append(groups, [key |-> combination_key, members |-> <<variant>>])

RECURSIVE GroupFrom(_, _)
GroupFrom(groups, rvs) ==
    IF rvs = <<>> THEN groups ELSE GroupFrom(AddToGroup(groups, Head(rvs)), Tail(rvs))

combination_groups(rvs) == GroupFrom(<<>>, rvs)

-----------------------------------------------------------------------------
(* parse_restaurant_variants: per-group statistics *)

\* price_range with `cost >= 0` for `cost > 0`
price_range_nonnegative(variants_in_combo) ==
    LET all_costs == [i \in DOMAIN variants_in_combo |-> variants_in_combo[i].cost]
        costs == SelectSeq(all_costs, LAMBDA c : c >= 0)
    IN  [min_price |-> IF costs # <<>> THEN Min(costs) ELSE 0,
         max_price |-> IF costs # <<>> THEN Max(costs) ELSE 0,
         average_price |-> IF costs # <<>> THEN TrueDiv(SumSeq(costs), Len(costs)) ELSE Zero]

price_range(variants_in_combo) ==
    LET all_costs == [i \in DOMAIN variants_in_combo |-> variants_in_combo[i].cost]
        costs == SelectSeq(all_costs, LAMBDA c : c > 0)
    IN  [min_price |-> IF costs # <<>> THEN Min(costs) ELSE 0,
         max_price |-> IF costs # <<>> THEN Max(costs) ELSE 0,
         average_price |-> IF costs # <<>> THEN TrueDiv(SumSeq(costs), Len(costs)) ELSE Zero]

cuisine_stats(combination) ==
    [unique_cuisine_ids |-> combination, total_cuisine_count |-> Len(combination)]

menu_stats(variants_in_combo) ==
    LET all_categories == UNION {variants_in_combo[i].categories : i \in DOMAIN variants_in_combo}
        named == {cat \in all_categories : cat[2] # ""}
    IN  [total_menu_items |->
             SumSeq([i \in DOMAIN variants_in_combo |-> variants_in_combo[i].menu_items_count]),
         total_unique_categories |-> Cardinality(all_categories),
         \* one entry per named pair, in no specified order: each name with its multiplicity
         category_names |->
             {<<cat[2], Cardinality({c \in named : c[2] = cat[2]})>> : cat \in named}]

venue_stats(variants_in_combo) ==
    LET unique_venues == {variants_in_combo[i].venue_id : i \in DOMAIN variants_in_combo} \ {""}
    IN  [total_unique_venues |-> Cardinality(unique_venues), venue_ids |-> unique_venues]

service_stats(variants_in_combo) ==
    LET unique_free_services ==
            UNION {Range(variants_in_combo[i].free_services) : i \in DOMAIN variants_in_combo}
        unique_paid_services ==
            UNION {Range(variants_in_combo[i].paid_services) : i \in DOMAIN variants_in_combo}
    IN  [total_unique_free_services |-> Cardinality(unique_free_services),
         free_service_names |-> unique_free_services,
         total_unique_paid_services |-> Cardinality(unique_paid_services),
         paid_service_names |-> unique_paid_services]

matching_variants(variants_in_combo) ==
    [i \in DOMAIN variants_in_combo |->
        [variant_id |-> variants_in_combo[i].variant_id,
         variant_name |-> variants_in_combo[i].variant_name,
         cost |-> variants_in_combo[i].cost,
         venue_id |-> variants_in_combo[i].venue_id,
         free_services_count |-> variants_in_combo[i].free_services_count,
         paid_services_count |-> variants_in_combo[i].paid_services_count]]

\* the record appended to formatted_combinations for one group
FormattedCombination(combination, variants_in_combo) ==
    [cuisine_combination |-> combination,
     frequency |-> Len(variants_in_combo),
     combination_size |-> Len(combination),
     matching_variants |-> matching_variants(variants_in_combo),
     price_range |-> price_range(variants_in_combo),
     cuisine_stats |-> cuisine_stats(combination),
     menu_stats |-> menu_stats(variants_in_combo),
     venue_stats |-> venue_stats(variants_in_combo),
     service_stats |-> service_stats(variants_in_combo)]

formatted_combinations(groups) ==
    [g \in DOMAIN groups |-> FormattedCombination(groups[g].key, groups[g].members)]

\* list.sort(key=frequency, reverse=True) is stable: an element goes behind every
\* element already placed whose frequency is at least its own
InsertByFrequency(sorted, x) ==
    LET ahead == Cardinality({i \in DOMAIN sorted : sorted[i].frequency >= x.frequency})
    IN  SubSeq(sorted, 1, ahead) \o <<x>> \o SubSeq(sorted, ahead + 1, Len(sorted))

RECURSIVE SortFrom(_, _)
SortFrom(sorted, rest) ==
    IF rest = <<>> THEN sorted ELSE SortFrom(InsertByFrequency(sorted, Head(rest)), Tail(rest))

\* a descending sort that is not stable: an element goes ahead of its equals
InsertAheadOfEquals(sorted, x) ==
    LET ahead == Cardinality({i \in DOMAIN sorted : sorted[i].frequency > x.frequency})
    IN  SubSeq(sorted, 1, ahead) \o <<x>> \o SubSeq(sorted, ahead + 1, Len(sorted))

RECURSIVE UnstableSortFrom(_, _)
UnstableSortFrom(sorted, rest) ==
    IF rest = <<>> THEN sorted
    ELSE UnstableSortFrom(InsertAheadOfEquals(sorted, Head(rest)), Tail(rest))

SortByFrequency_unstable(combinations) == UnstableSortFrom(<<>>, combinations)

SortByFrequency(combinations) == SortFrom(<<>>, combinations)

-----------------------------------------------------------------------------
(* parse_restaurant_variants: the whole function *)

EmptyList == [t |-> "list", v |-> <<>>]

\* bool(value) for a tagged value
Truthy(value) ==
    CASE value.t = "list" -> value.v # <<>>
      [] value.t = "null" -> FALSE
      [] value.t = "int" -> value.v # 0
      [] value.t = "str" -> value.v # ""
      [] value.t = "dict" -> value.items # {}

Return(value) == [kind |-> "return", value |-> value]
Raise(error) == [kind |-> "raise", error |-> error]

\* EmptyResult with the restaurant_id default of the non-empty path
EmptyResult_unknown_id ==
    [restaurant_data |-> <<>>,
     sorted_cuisine_combinations |-> <<>>,
     all_cuisine_ids |-> <<>>,
     summary |-> [total_variants |-> 0,
                  total_unique_cuisine_combinations |-> 0,
                  total_unique_cuisines |-> 0,
                  restaurant_id |-> "unknown"]]

\* the literal returned when `not variants`
EmptyResult ==
    [restaurant_data |-> <<>>,
     sorted_cuisine_combinations |-> <<>>,
     all_cuisine_ids |-> <<>>,
     summary |-> [total_variants |-> 0,
                  total_unique_cuisine_combinations |-> 0,
                  total_unique_cuisines |-> 0,
                  restaurant_id |-> PyNone]]

\* the function's body from `restaurant_id = ...` on, for a non-empty list of mappings
Analysis(variants) ==
    LET restaurant_id == Get(variants[1], "packageId", "unknown")
        rvs == restaurant_variants(variants)
        sorted_combinations == SortByFrequency(formatted_combinations(combination_groups(rvs)))
        all_cuisine_ids_list == Sorted(all_cuisine_ids(variants))
    IN  [restaurant_data |-> <<[restaurant_id |-> restaurant_id,
                                total_variants |-> Len(variants),
                                variants |-> rvs]>>,
         sorted_cuisine_combinations |-> sorted_combinations,
         all_cuisine_ids |-> all_cuisine_ids_list,
         summary |-> [total_variants |-> Len(variants),
                      total_unique_cuisine_combinations |-> Len(sorted_combinations),
                      total_unique_cuisines |-> Len(all_cuisine_ids_list),
                      restaurant_id |-> restaurant_id]]

\* What a call returns or raises.  A value that is no mapping has no .get
\* (AttributeError); variants[0] is a TypeError on a number, a KeyError on a
\* mapping (its keys are strings) and a one-character string on a string,
\* whose .get is again an AttributeError.
parse_restaurant_variants(response) ==
    IF response.t # "dict" THEN Raise("AttributeError")
    ELSE LET variants == DictGet(response, "variants", EmptyList)
         IN  IF ~Truthy(variants) THEN Return(EmptyResult)
             ELSE CASE variants.t = "list" -> Return(Analysis(variants.v))
                    [] variants.t = "int" -> Raise("TypeError")
                    [] variants.t = "str" -> Raise("AttributeError")
                    [] variants.t = "dict" -> Raise("KeyError")

-----------------------------------------------------------------------------
(* The responses the model hands to parse_restaurant_variants *)

VariantIds == <<"v1", "v2", "v3", "v4", "v5">>

SeqsUpTo(S, n) == UNION {[1..k -> S] : k \in 0..n}

Item(cuisine) == [cuisine |-> cuisine]

\* Variants of the grouping family: every way a cuisine set can be spelled
\* (menuItems missing or empty, an item without cuisines, ids in either
\* order, repeated within an item or across items).
KeyShapes ==
    {[packageId |-> "p1"],
     [menuItems |-> <<>>],
     [packageId |-> "p1", menuItems |-> <<[category |-> <<>>]>>],
     [packageId |-> "p1", menuItems |-> <<Item(<<>>)>>],
     [packageId |-> "p1", menuItems |-> <<Item(<<"c1">>)>>],
     [packageId |-> "p1", menuItems |-> <<Item(<<"c2">>)>>],
     [packageId |-> "p1", menuItems |-> <<Item(<<"c1", "c2">>)>>],
     [packageId |-> "p1", menuItems |-> <<Item(<<"c2", "c1">>)>>],
     [packageId |-> "p1", menuItems |-> <<Item(<<"c1", "c1">>)>>],
     [packageId |-> "p1", menuItems |-> <<Item(<<"c2">>), Item(<<"c1">>)>>],
     [packageId |-> "p1", menuItems |-> <<Item(<<"c2", "c1">>), Item(<<"c2">>)>>],
     [packageId |-> "p1", menuItems |-> <<Item(<<"c3", "c1">>)>>]}

\* Variants of the price family: a cost (or none) on one of two cuisine sets.
PriceShapes ==
    {[menuItems |-> mi] : mi \in {<<>>, <<Item(<<"c1">>)>>}}
    \cup {[menuItems |-> mi, cost |-> c] :
              mi \in {<<>>, <<Item(<<"c1">>)>>}, c \in -1..MaxCost}

Leaf(id, name) == [_id |-> id, name |-> name]

\* Menu items of the category family.
CategoryItems ==
    {[cuisine |-> <<"c1">>],
     [cuisine |-> <<"c1">>, category |-> <<Leaf("k1", "Starters")>>],
     [cuisine |-> <<"c1">>, category |-> <<Leaf("k2", "Starters"), [name |-> "Mains"]>>],
     [cuisine |-> <<"c1">>, category |-> <<[_id |-> "k3"]>>],
     [cuisine |-> <<"c1">>,
      category |-> <<[_id |-> "k1", name |-> "Starters", parentCategories |-> <<>>]>>],
     [cuisine |-> <<"c1">>,
      category |-> <<[_id |-> "k4", name |-> "Soups",
                      parentCategories |-> <<Leaf("k1", "Starters")>>]>>],
     [cuisine |-> <<"c1">>,
      category |-> <<[_id |-> "k5", name |-> "Breads",
                      parentCategories |-> <<Leaf("k6", "Sides"), [_id |-> "k7"]>>],
                     Leaf("k5", "Breads")>>],
     [cuisine |-> <<"c1">>,
      category |-> <<[_id |-> "k8", name |-> "Salads",
                      parentCategories |-> <<Leaf("k6", "Sides"), Leaf("k6", "Sides")>>],
                     Leaf("k1", "Starters")>>]}

\* Entries of freeServices / paidServices.
ServiceEntries ==
    {[serviceName |-> "WiFi"], [serviceName |-> "Parking"], [serviceName |-> ""], [_id |-> "s1"]}

ServiceShapes ==
    {[packageId |-> "p1"]}
    \cup {[freeServices |-> f] : f \in SeqsUpTo(ServiceEntries, MaxServices)}
    \cup {[freeServices |-> f, paidServices |-> q] :
              f \in SeqsUpTo(ServiceEntries, MaxServices),
              q \in SeqsUpTo(ServiceEntries, MaxServices)}

\* the i-th variant of a response carries the i-th id
Variants(shapes) == [i \in DOMAIN shapes |-> [_id |-> VariantIds[i]] @@ shapes[i]]

Response(variants) ==
    [t |-> "dict", items |-> {<<"variants", [t |-> "list", v |-> variants]>>}]

\* Responses with no usable variants: no mapping at all, no "variants" key,
\* or a "variants" value that is no list.
NonListValues ==
    {[t |-> "null"], [t |-> "int", v |-> 0], [t |-> "int", v |-> 5],
     [t |-> "str", v |-> ""], [t |-> "str", v |-> "none"],
     [t |-> "dict", items |-> {}],
     [t |-> "dict", items |-> {<<"v1", [t |-> "null"]>>}]}

OtherResponses ==
    {[t |-> "null"], [t |-> "list", v |-> <<>>], [t |-> "str", v |-> "Bad Gateway"],
     [t |-> "int", v |-> 0],
     [t |-> "dict", items |-> {}],
     [t |-> "dict", items |-> {<<"status", [t |-> "str", v |-> "ok"]>>}]}
    \cup {[t |-> "dict", items |-> {<<"variants", x>>}] : x \in NonListValues}

-----------------------------------------------------------------------------
(* The call of parse_restaurant_variants *)

NoResult == [kind |-> "none"]

InitParse ==
    /\ pc = "called"
    /\ \/ \E n \in 0..MaxVariants : \E s \in [1..n -> KeyShapes] :
              api_response = Response(Variants(s))
       \/ \E n \in 0..MaxPriceVariants : \E s \in [1..n -> PriceShapes] :
              api_response = Response(Variants(s))
       \/ \E n \in 0..MaxCatItems : \E mi \in [1..n -> CategoryItems] :
              api_response = Response(Variants(<<[menuItems |-> mi]>>))
       \/ \E s \in ServiceShapes : api_response = Response(Variants(<<s>>))
       \/ api_response \in OtherResponses
    /\ result = NoResult

InitFetchIdle ==
    /\ fetch_pc = "idle"
    /\ MAX_RETRIES = 1
    /\ attempt = 0
    /\ events = <<>>
    /\ fetched = NoResult

ParseReturn ==
    /\ pc = "called"
    /\ result' = parse_restaurant_variants(api_response)
    /\ result'.kind = "return"
    /\ pc' = "returned"
    /\ UNCHANGED <<api_response, fetch_vars>>

ParseRaise ==
    /\ pc = "called"
    /\ result' = parse_restaurant_variants(api_response)
    /\ result'.kind = "raise"
    /\ pc' = "raised"
    /\ UNCHANGED <<api_response, fetch_vars>>

Init == InitParse /\ InitFetchIdle

Next == ParseReturn \/ ParseRaise

Spec == Init /\ [][Next]_vars

-----------------------------------------------------------------------------
(* fetch_variants_data *)

RECURSIVE Pow2(_)
Pow2(k) == IF k = 0 THEN 1 ELSE 2 * Pow2(k - 1)

\* time.sleep(2 * attempt)
SleepSeconds_linear(k) == 2 * k

\* the argument of time.sleep(2 ** attempt)
SleepSeconds(k) == Pow2(k)

\* attempt == config.MAX_RETRIES
LastAttempt_off_by_one(k, max_retries) == k = max_retries

\* attempt == config.MAX_RETRIES - 1
LastAttempt(k, max_retries) == k = max_retries - 1

\* The bodies a successful POST may carry.
Bodies ==
    {[t |-> "dict", items |-> {}],
     [t |-> "dict", items |-> {<<"variants", EmptyList>>}],
     [t |-> "list", v |-> <<>>]}

\* The exceptions of requests.exceptions.RequestException other than HTTPError
\* that an attempt may end with.
RequestExceptions == {"ConnectionError", "Timeout"}

PostEvent(k, outcome) == [op |-> "post", attempt |-> k, outcome |-> outcome]
SleepEvent(seconds) == [op |-> "sleep", seconds |-> seconds]

InitParseIdle ==
    /\ pc = "idle"
    /\ api_response = [t |-> "null"]
    /\ result = NoResult

InitFetch ==
    /\ fetch_pc = "loop"
    /\ MAX_RETRIES \in 0..MaxRetriesBound
    /\ attempt = 0
    /\ events = <<>>
    /\ fetched = NoResult

InitRetrieval == InitParseIdle /\ InitFetch

\* requests.post succeeds, raise_for_status passes, response.json() is returned
PostOk ==
    /\ fetch_pc = "loop"
    /\ attempt < MAX_RETRIES
    /\ \E body \in Bodies :
           /\ events' = Append(events, PostEvent(attempt, "ok") @@ [body |-> body])
           /\ fetched' = Return(body)
    /\ fetch_pc' = "returned"
    /\ UNCHANGED <<MAX_RETRIES, attempt, parse_vars>>

\* raise_for_status raises: `except requests.exceptions.HTTPError`
PostHTTPError ==
    /\ fetch_pc = "loop"
    /\ attempt < MAX_RETRIES
    /\ events' = Append(events, PostEvent(attempt, "HTTPError"))
    /\ IF LastAttempt(attempt, MAX_RETRIES)
       THEN fetch_pc' = "raised" /\ fetched' = Raise("Exception")
       ELSE fetch_pc' = "sleep" /\ fetched' = fetched
    /\ UNCHANGED <<MAX_RETRIES, attempt, parse_vars>>

\* the request fails otherwise: `except requests.exceptions.RequestException`
PostRequestException ==
    /\ fetch_pc = "loop"
    /\ attempt < MAX_RETRIES
    /\ \E error \in RequestExceptions :
           /\ events' = Append(events, PostEvent(attempt, error))
           /\ IF LastAttempt(attempt, MAX_RETRIES)
              THEN fetch_pc' = "raised" /\ fetched' = Raise(error)
              ELSE fetch_pc' = "sleep" /\ fetched' = fetched
    /\ UNCHANGED <<MAX_RETRIES, attempt, parse_vars>>

\* time.sleep(2 ** attempt), then the next iteration
Sleep ==
    /\ fetch_pc = "sleep"
    /\ events' = Append(events, SleepEvent(SleepSeconds(attempt)))
    /\ attempt' = attempt + 1
    /\ fetch_pc' = "loop"
    /\ UNCHANGED <<MAX_RETRIES, fetched, parse_vars>>

\* range(config.MAX_RETRIES) is exhausted: the function falls off its end and
\* returns None
LoopExit ==
    /\ fetch_pc = "loop"
    /\ attempt >= MAX_RETRIES
    /\ fetched' = Return([t |-> "null"])
    /\ fetch_pc' = "returned"
    /\ UNCHANGED <<MAX_RETRIES, attempt, events, parse_vars>>

NextFetch == PostOk \/ PostHTTPError \/ PostRequestException \/ Sleep \/ LoopExit

\* Every step of the function ends: the POST has a timeout and the sleep is finite.
SpecFetch == InitRetrieval /\ [][NextFetch]_vars /\ WF_vars(NextFetch)

-----------------------------------------------------------------------------
(* What the properties say about a call, read off its argument and result *)

IsMapping == api_response.t = "dict"

HasVariantsKey == IsMapping /\ \E p \in api_response.items : p[1] = "variants"

VariantsValue == (CHOOSE p \in api_response.items : p[1] = "variants")[2]

\* the call was given a non-empty list of variants
GivenVariants == HasVariantsKey /\ VariantsValue.t = "list" /\ VariantsValue.v # <<>>

Input == VariantsValue.v

Analysed == pc = "returned" /\ GivenVariants

Output == result.value

Groups == Output.sorted_cuisine_combinations

InputItems(i) == IF "menuItems" \in DOMAIN Input[i] THEN Input[i].menuItems ELSE <<>>

ItemIds(item) == IF "cuisine" \in DOMAIN item THEN {item.cuisine[k] : k \in DOMAIN item.cuisine} ELSE {}

\* the cuisine ids of the i-th input variant, as a set
CuisineSet(i) == UNION {ItemIds(InputItems(i)[j]) : j \in DOMAIN InputItems(i)}

InputCost(i) == IF "cost" \in DOMAIN Input[i] THEN Input[i].cost ELSE 0

\* the i-th input variant is listed in the g-th entry
ListedIn(i, g) ==
    \E m \in DOMAIN Groups[g].matching_variants :
        Groups[g].matching_variants[m].variant_id = Input[i]._id

StrictlyAscending(ids) == \A k \in 1..(Len(ids) - 1) : StrLess(ids[k], ids[k + 1])

\* the sum of the costs of the input variants with index in S
RECURSIVE CostSum(_)
CostSum(S) ==
    IF S = {} THEN 0 ELSE LET i == CHOOSE i \in S : TRUE IN InputCost(i) + CostSum(S \ {i})

-----------------------------------------------------------------------------
(* Properties *)

\* C1: two variants of the input are listed in the same entry of
\* sorted_cuisine_combinations exactly when their cuisine ids, collected over all
\* their menu items, form the same set, whatever the order and repetition of the
\* ids; the cuisine_combination of an entry listing a variant is that set, sorted
\* ascending without duplicates.
C1_SameGroupIffSameSet ==
    Analysed =>
        /\ \A a, b \in DOMAIN Input :
               a # b =>
                   ((\E g \in DOMAIN Groups : ListedIn(a, g) /\ ListedIn(b, g))
                        <=> CuisineSet(a) = CuisineSet(b))
        /\ \A a \in DOMAIN Input : \A g \in DOMAIN Groups :
               ListedIn(a, g) =>
                   /\ Range(Groups[g].cuisine_combination) = CuisineSet(a)
                   /\ StrictlyAscending(Groups[g].cuisine_combination)

\* Two variants that spell the set {c1, c2} differently share an entry, and a
\* third variant with another set is listed elsewhere.
C1_Witness ==
    /\ Analysed
    /\ \E a, b, c \in DOMAIN Input : \E g, h \in DOMAIN Groups :
           /\ a # b /\ g # h
           /\ InputItems(a) # InputItems(b)
           /\ CuisineSet(a) = {"c1", "c2"} /\ CuisineSet(b) = {"c1", "c2"}
           /\ CuisineSet(c) # {"c1", "c2"}
           /\ ListedIn(a, g) /\ ListedIn(b, g) /\ ListedIn(c, h)
           /\ Groups[g].cuisine_combination = <<"c1", "c2">>

\* C2: a variant with no cuisine ids is in restaurant_data.variants and counted in
\* summary.total_variants, but no entry lists it, and no entry has an empty
\* cuisine_combination.
C2_EmptyCuisinesUngrouped ==
    Analysed =>
        /\ Output.summary.total_variants = Len(Input)
        /\ \A i \in DOMAIN Input :
               CuisineSet(i) = {} =>
                   /\ \E k \in DOMAIN Output.restaurant_data[1].variants :
                          Output.restaurant_data[1].variants[k].variant_id = Input[i]._id
                   /\ \A g \in DOMAIN Groups : ~ListedIn(i, g)
        /\ \A g \in DOMAIN Groups :
               /\ Groups[g].cuisine_combination # <<>>
               /\ Groups[g].combination_size # 0

\* C3: the frequencies of all entries plus the number of input variants without
\* cuisine ids add up to summary.total_variants.
C3_FrequencyConservation ==
    Analysed =>
        SumSeq([g \in DOMAIN Groups |-> Groups[g].frequency])
                + Cardinality({i \in DOMAIN Input : CuisineSet(i) = {}})
            = Output.summary.total_variants

\* the position in the input at which an entry's combination first occurs
FirstSeen(g) ==
    LET at == {i \in DOMAIN Input : CuisineSet(i) = Range(Groups[g].cuisine_combination)}
    IN  CHOOSE i \in at : \A j \in at : i <= j

\* C4: the entries are in non-increasing order of frequency, entries of equal
\* frequency in the order in which their combination first occurs in the input;
\* frequency is the number of variants listed and combination_size the length of
\* the combination.
C4_SortedByFrequencyStable ==
    Analysed =>
        /\ \A g, h \in DOMAIN Groups :
               g < h =>
                   /\ Groups[g].frequency >= Groups[h].frequency
                   /\ Groups[g].frequency = Groups[h].frequency => FirstSeen(g) < FirstSeen(h)
        /\ \A g \in DOMAIN Groups :
               /\ Groups[g].frequency = Len(Groups[g].matching_variants)
               /\ Groups[g].frequency =
                      Cardinality({i \in DOMAIN Input :
                                       CuisineSet(i) = Range(Groups[g].cuisine_combination)})
               /\ Groups[g].combination_size = Len(Groups[g].cuisine_combination)

\* The sort moved a more frequent combination ahead of one that occurs earlier in
\* the input.
C4_Witness ==
    /\ Analysed
    /\ \E g, h \in DOMAIN Groups :
           /\ g < h
           /\ Groups[g].cuisine_combination # <<>>
           /\ Groups[h].cuisine_combination # <<>>
           /\ Groups[g].frequency > Groups[h].frequency
           /\ FirstSeen(g) > FirstSeen(h)

\* C5: an entry's min_price, max_price and average_price are the minimum, maximum
\* and mean of the costs above zero among the variants with its combination, and
\* all 0 when there is none; the variants with a cost of zero or less still count
\* in frequency and are still listed.
C5_PriceRangeOverPositiveCosts ==
    Analysed =>
        \A g \in DOMAIN Groups :
            LET members == {i \in DOMAIN Input :
                                CuisineSet(i) = Range(Groups[g].cuisine_combination)}
                priced == {i \in members : InputCost(i) > 0}
                range == Groups[g].price_range
            IN  /\ Groups[g].frequency = Cardinality(members)
                /\ \A i \in members : ListedIn(i, g)
                /\ IF priced = {}
                   THEN /\ range.min_price = 0
                        /\ range.max_price = 0
                        /\ range.average_price.num = 0
                   ELSE /\ \E i \in priced : range.min_price = InputCost(i)
                        /\ \A i \in priced : range.min_price <= InputCost(i)
                        /\ \E i \in priced : range.max_price = InputCost(i)
                        /\ \A i \in priced : range.max_price >= InputCost(i)
                        /\ range.average_price.den > 0
                        /\ range.average_price.num * Cardinality(priced)
                               = CostSum(priced) * range.average_price.den

\* An entry of three variants with costs 1, 2 and at most 0: the range is 1..2 and
\* the average 3/2.
C5_Witness ==
    /\ Analysed
    /\ \E g \in DOMAIN Groups : \E i \in DOMAIN Input :
           /\ InputCost(i) <= 0
           /\ ListedIn(i, g)
           /\ Groups[g].frequency = 3
           /\ Groups[g].price_range =
                  [min_price |-> 1, max_price |-> 2, average_price |-> [num |-> 3, den |-> 2]]

Field(mapping, key) == IF key \in DOMAIN mapping THEN mapping[key] ELSE ""

ParentsOf(category) ==
    IF "parentCategories" \in DOMAIN category
    THEN {category.parentCategories[k] : k \in DOMAIN category.parentCategories}
    ELSE {}

ItemCategories(item) ==
    IF "category" \in DOMAIN item THEN {item.category[k] : k \in DOMAIN item.category} ELSE {}

\* the pairs a menu item is to contribute: its categories' parents, and the
\* categories that have none
RolledUp(item) ==
    {<<Field(p, "_id"), Field(p, "name")>> : p \in UNION {ParentsOf(c) : c \in ItemCategories(item)}}
    \cup {<<Field(c, "_id"), Field(c, "name")>> : c \in {c \in ItemCategories(item) : ParentsOf(c) = {}}}

\* C6: extract_categories_from_menu_item yields, for a category with parents, one
\* (id, name) pair per parent and not its own, and for a category without parents
\* its own pair, "" standing for a missing id or name; a variant's categories are
\* the union over its menu items and categories_count is the size of that union.
C6_CategoryRollup ==
    Analysed =>
        \A i \in DOMAIN Input :
            LET normalized == Output.restaurant_data[1].variants[i]
            IN  /\ \A j \in DOMAIN InputItems(i) :
                       extract_categories_from_menu_item(InputItems(i)[j]) = RolledUp(InputItems(i)[j])
                /\ normalized.categories = UNION {RolledUp(InputItems(i)[j]) : j \in DOMAIN InputItems(i)}
                /\ normalized.categories_count = Cardinality(normalized.categories)

\* A variant whose item has the category k4 "Soups" under the parent k1 "Starters"
\* reports the parent alone.
C6_Witness ==
    /\ Analysed
    /\ \E j \in DOMAIN InputItems(1) : \E c \in ItemCategories(InputItems(1)[j]) :
           /\ Field(c, "_id") = "k4"
           /\ ParentsOf(c) # {}
    /\ Output.restaurant_data[1].variants[1].categories = {<<"k1", "Starters">>}
    /\ Output.restaurant_data[1].variants[1].categories_count = 1

\* the response is structurally invalid: no mapping, or a "variants" value that
\* is no list
Invalid == ~IsMapping \/ (HasVariantsKey /\ VariantsValue.t # "list")

\* C7: a structurally invalid response makes the call raise InvalidInputError.
C7_InvalidInputRaises ==
    (pc # "called" /\ Invalid) => (result.kind = "raise" /\ result.error = "InvalidInputError")

\* C8: a mapping with no "variants" key or an empty "variants" list returns the
\* zeroed result.
C8_EmptyInputZeroed ==
    (pc # "called" /\ IsMapping /\ (~HasVariantsKey \/ VariantsValue = EmptyList)) =>
        result =
            [kind |-> "return",
             value |-> [restaurant_data |-> <<>>,
                        sorted_cuisine_combinations |-> <<>>,
                        all_cuisine_ids |-> <<>>,
                        summary |-> [total_variants |-> 0,
                                     total_unique_cuisine_combinations |-> 0,
                                     total_unique_cuisines |-> 0,
                                     restaurant_id |-> PyNone]]]

\* The call has returned for the mapping without any key.
C8_Witness ==
    /\ pc = "returned"
    /\ IsMapping
    /\ api_response.items = {}

\* the non-empty serviceName values of a list of services, in order
RECURSIVE NonEmptyNames(_)
NonEmptyNames(services) ==
    IF services = <<>> THEN <<>>
    ELSE (IF Field(Head(services), "serviceName") = "" THEN <<>>
          ELSE <<Head(services).serviceName>>) \o NonEmptyNames(Tail(services))

InputServices(i, key) == IF key \in DOMAIN Input[i] THEN Input[i][key] ELSE <<>>

\* C9: free_services and paid_services are, each on its own, the non-empty
\* service names in source order with repetitions kept, and the two counts are
\* their lengths.
C9_ServicesFiltered ==
    Analysed =>
        \A i \in DOMAIN Input :
            LET normalized == Output.restaurant_data[1].variants[i]
            IN  /\ normalized.free_services = NonEmptyNames(InputServices(i, "freeServices"))
                /\ normalized.paid_services = NonEmptyNames(InputServices(i, "paidServices"))
                /\ normalized.free_services_count = Len(normalized.free_services)
                /\ normalized.paid_services_count = Len(normalized.paid_services)

\* freeServices WiFi and "" give ["WiFi"], count 1; a repeated paid name stays twice.
C9_Witness ==
    /\ Analysed
    /\ InputServices(1, "freeServices") = <<[serviceName |-> "WiFi"], [serviceName |-> ""]>>
    /\ InputServices(1, "paidServices") = <<[serviceName |-> "Parking"], [serviceName |-> "Parking"]>>
    /\ Output.restaurant_data[1].variants[1].free_services = <<"WiFi">>
    /\ Output.restaurant_data[1].variants[1].free_services_count = 1
    /\ Output.restaurant_data[1].variants[1].paid_services = <<"Parking", "Parking">>
    /\ Output.restaurant_data[1].variants[1].paid_services_count = 2

FetchDone == fetch_pc \in {"returned", "raised"}

Posts == SelectSeq(events, LAMBDA e : e.op = "post")

Failed(e) == e.op = "post" /\ e.outcome # "ok"

\* what fetch_variants_data has done so far is a prefix of: POST 0, sleep 1,
\* POST 1, sleep 2, ..., each POST but the last one failed, no sleep after POST
\* MAX_RETRIES - 1; and it ends as the last POST says
RetryShape ==
    /\ Len(Posts) <= MAX_RETRIES
    /\ \A k \in DOMAIN Posts : Posts[k].attempt = k - 1
    /\ \A e \in DOMAIN events :
           /\ events[e].op = "post" /\ events[e].outcome = "ok" =>
                  e = Len(events) /\ fetch_pc = "returned"
           /\ Failed(events[e]) /\ events[e].attempt < MAX_RETRIES - 1 =>
                  /\ e = Len(events) => fetch_pc = "sleep"
                  /\ e < Len(events) =>
                         events[e + 1] = [op |-> "sleep", seconds |-> Pow2(events[e].attempt)]
                  /\ e + 1 < Len(events) =>
                         events[e + 2].op = "post" /\ events[e + 2].attempt = events[e].attempt + 1
                  /\ e + 1 = Len(events) => fetch_pc = "loop"
           /\ Failed(events[e]) /\ events[e].attempt >= MAX_RETRIES - 1 =>
                  e = Len(events) /\ fetch_pc = "raised"
           /\ events[e].op = "sleep" => e > 1 /\ Failed(events[e - 1])
    /\ fetch_pc = "returned" =>
           /\ events # <<>>
           /\ events[Len(events)].op = "post" /\ events[Len(events)].outcome = "ok"
           /\ fetched = [kind |-> "return", value |-> events[Len(events)].body]
    /\ fetch_pc = "raised" =>
           /\ Len(Posts) = MAX_RETRIES
           /\ \A k \in DOMAIN Posts : Failed(Posts[k])
           /\ fetched.kind = "raise"

\* C10: with MAX_RETRIES >= 1, fetch_variants_data ends after at most MAX_RETRIES
\* POSTs: it returns the body of the first POST that succeeds and does nothing
\* after it, sleeps 2^k seconds after the failed POST k < MAX_RETRIES - 1 and
\* then tries again, raises without sleeping after the failed POST
\* MAX_RETRIES - 1, and never returns without a successful POST.
C10_RetryTerminates ==
    /\ [](MAX_RETRIES >= 1 => RetryShape)
    /\ (MAX_RETRIES >= 1 => <>FetchDone)

\* Two failed POSTs, sleeps of 1 and 2 seconds, and a third POST that succeeds.
C10_Witness ==
    /\ MAX_RETRIES = 3
    /\ fetch_pc = "returned"
    /\ Len(events) = 5
    /\ events[2] = [op |-> "sleep", seconds |-> 1]
    /\ events[4] = [op |-> "sleep", seconds |-> 2]
    /\ events[5].outcome = "ok"

====
